---- MODULE Spec2Model ----
(***************************************************************************)
(* Model of src/main.py: the maximum-balance report over YNAB accounts.    *)
(*                                                                         *)
(* Spec      one account: its transactions are fetched, filtered on their  *)
(*           cleared status and sorted by date, newest first (lines        *)
(*           128-133), then scanned backward from the cleared balance      *)
(*           (lines 136-164).                                              *)
(* MainSpec  main() as a whole over budgets and accounts, every fetch      *)
(*           going through handle_exception (lines 53-63, 113-193).        *)
(***************************************************************************)
EXTENDS Integers, Sequences, FiniteSets, TLC

VARIABLES pc, response, cleared_balance, transactions, idx,
          current_balance, max_balance,
          budgets, accounts, at, stdout

vars == <<pc, response, cleared_balance, transactions, idx,
          current_balance, max_balance, budgets, accounts, at, stdout>>

coreVars == <<response, cleared_balance, transactions, idx,
              current_balance, max_balance>>

mainVars == <<budgets, accounts, at, stdout>>

(***************************************************************************)
(* Bounds and input samples.                                               *)
(***************************************************************************)
\* longest date-descending list of cleared transactions an account starts with
MaxLen == 3
\* longest unordered API response with mixed cleared statuses
MaxFetched == 2
\* MainSpec: budgets of the user, accounts per budget, transactions per account
MaxBudgets == 2
MaxAccounts == 1
MaxMainFetched == 1

\* CONFIG['year'], the target calendar year
CONFIG_year == 2024

Years == {CONFIG_year - 1, CONFIG_year, CONFIG_year + 1}
MonthDays == {<<1, 1>>, <<6, 15>>, <<12, 31>>}
Amounts == {-1, 0, 1}
Balances == {0, 5}
Statuses == {"cleared", "reconciled", "uncleared"}

(***************************************************************************)
(* datetime.date: a (year, month, day) triple, ordered chronologically.    *)
(***************************************************************************)
date(y, m, d) == <<y, m, d>>

DateLT(a, b) ==
    \/ a[1] < b[1]
    \/ a[1] = b[1] /\ a[2] < b[2]
    \/ a[1] = b[1] /\ a[2] = b[2] /\ a[3] < b[3]

DateLE(a, b) == a = b \/ DateLT(a, b)

\* the first, a middle and the last day of the target year, and the two
\* nearest of these days in the year before and in the year after
Dates ==
    {date(y, md[1], md[2]) : y \in Years, md \in MonthDays}
        \ {date(CONFIG_year - 1, 1, 1), date(CONFIG_year + 1, 12, 31)}

\* one date per year, for the unordered responses
FewDates == {date(y, 6, 15) : y \in Years}

SeqsUpTo(S, n) == UNION {[1..k -> S] : k \in 0..n}

None == [none |-> TRUE]

\* transaction['date'].year == CONFIG['year']
InYearBroken(d) == d[1] >= CONFIG_year

InYear(d) == d[1] = CONFIG_year

(***************************************************************************)
(* Lines 129-133: the comprehension's filter and sorted(..., reverse=True) *)
(***************************************************************************)
IsClearedBroken(t) == t.cleared # "reconciled"

IsCleared(t) == t.cleared \in {"cleared", "reconciled"}

RECURSIVE InsertDesc(_, _)
\* x goes behind every element that is not older than it: sorted() is stable
InsertDesc(s, x) ==
    IF s = <<>> THEN <<x>>
    ELSE IF DateLT(Head(s).date, x.date) THEN <<x>> \o s
    ELSE <<Head(s)>> \o InsertDesc(Tail(s), x)

RECURSIVE SortedByDateBody(_, _)
SortedByDateBody(s, acc) ==
    IF s = <<>> THEN acc ELSE SortedByDateBody(Tail(s), InsertDesc(acc, Head(s)))

SortedByDate(s) == SortedByDateBody(s, <<>>)

FilterAndSort(resp) == SortedByDate(SelectSeq(resp, IsCleared))

(***************************************************************************)
(* Lines 139-162: one iteration of the scan. i is Python's idx (0-based).  *)
(***************************************************************************)
\* lines 141-147
SeedOnlyAtFirst(mb, cb, txns, i) ==
    IF InYear(txns[i + 1].date) /\ mb = None /\ i = 0
    THEN [balance |-> cb, start |-> txns[i + 1].date,
          end |-> date(CONFIG_year, 12, 31)]
    ELSE mb

Seed(mb, cb, txns, i) ==
    IF InYear(txns[i + 1].date) /\ mb = None
    THEN [balance |-> cb, start |-> txns[i + 1].date,
          end |-> date(CONFIG_year, 12, 31)]
    ELSE mb

\* line 150
UndoAdds(cb, t) == cb + t.amount

Undo(cb, t) == cb - t.amount

\* line 152, the comparison
ExceedsOrTies(cb, best) == cb >= best

Exceeds(cb, best) == cb > best

\* lines 153-156
StartOfSkipsOne(txns, i) ==
    IF i + 3 <= Len(txns) THEN txns[i + 3].date ELSE date(CONFIG_year, 1, 1)

StartOfNoFallback(txns, i) ==
    IF i + 2 <= Len(txns) THEN txns[i + 2].date ELSE txns[i + 1].date

StartOf(txns, i) ==
    IF i + 2 <= Len(txns) THEN txns[i + 2].date ELSE date(CONFIG_year, 1, 1)

LoopBody(txns, i, cb, mb) ==
    LET t == txns[i + 1]
        mb1 == Seed(mb, cb, txns, i)
        cb1 == Undo(cb, t)
    IN  IF ~InYear(t.date)
        THEN [raised |-> "", current_balance |-> cb1, max_balance |-> mb1]
        ELSE IF mb1 = None
        THEN [raised |-> "TypeError", current_balance |-> cb1, max_balance |-> mb1]
        ELSE IF Exceeds(cb1, mb1.balance)
        THEN [raised |-> "", current_balance |-> cb1,
              max_balance |-> [balance |-> cb1, start |-> StartOf(txns, i),
                               end |-> t.date]]
        ELSE [raised |-> "", current_balance |-> cb1, max_balance |-> mb1]

RECURSIVE Scan(_, _, _, _)
\* lines 137-164 as a whole: the value account['max_balance'] ends with
Scan(txns, i, cb, mb) ==
    IF i >= Len(txns) THEN [raised |-> "", max_balance |-> mb]
    ELSE LET r == LoopBody(txns, i, cb, mb)
         IN IF r.raised # "" THEN [raised |-> r.raised, max_balance |-> r.max_balance]
            ELSE Scan(txns, i + 1, r.current_balance, r.max_balance)

\* lines 129-164 for one account: from the API response to account['max_balance']
MaxBalanceOf(balance, resp) == Scan(FilterAndSort(resp), 0, balance, None)

(***************************************************************************)
(* Inputs.                                                                 *)
(***************************************************************************)
OneStatusTxns == [date : Dates, amount : Amounts, cleared : {"cleared"}]
RawTxns == [date : FewDates, amount : Amounts, cleared : Statuses]

IsDescending(s) == \A i \in 1..(Len(s) - 1) : DateLE(s[i + 1].date, s[i].date)

\* what get_transactions returns for the account: either a longer list of
\* cleared transactions, newest first, or a shorter list in any order and of
\* any cleared status
Responses ==
    {s \in SeqsUpTo(OneStatusTxns, MaxLen) : IsDescending(s)}
        \cup SeqsUpTo(RawTxns, MaxFetched)

(***************************************************************************)
(* Spec: one account.                                                      *)
(***************************************************************************)
Init ==
    /\ pc = "get_transactions"
    /\ response \in Responses
    /\ cleared_balance \in Balances
    /\ transactions = <<>>
    /\ idx = 0
    /\ current_balance = 0
    /\ max_balance = None
    /\ budgets = None
    /\ accounts = <<>>
    /\ at = 0
    /\ stdout = <<>>

\* lines 128-133
GetTransactions ==
    /\ pc = "get_transactions"
    /\ transactions' = FilterAndSort(response)
    /\ pc' = "calculate"
    /\ UNCHANGED <<response, cleared_balance, idx, current_balance, max_balance>>
    /\ UNCHANGED mainVars

\* lines 137-138
StartScan ==
    /\ pc = "calculate"
    /\ current_balance' = cleared_balance
    /\ max_balance' = None
    /\ idx' = 0
    /\ pc' = "scan"
    /\ UNCHANGED <<response, cleared_balance, transactions>>
    /\ UNCHANGED mainVars

\* lines 139-162, one transaction
Iterate ==
    /\ pc = "scan"
    /\ idx < Len(transactions)
    /\ LET r == LoopBody(transactions, idx, current_balance, max_balance)
       IN /\ current_balance' = r.current_balance
          /\ max_balance' = r.max_balance
          /\ pc' = IF r.raised = "" THEN "scan" ELSE r.raised
    /\ idx' = idx + 1
    /\ UNCHANGED <<response, cleared_balance, transactions>>
    /\ UNCHANGED mainVars

\* line 164
StoreMaxBalance ==
    /\ pc = "scan"
    /\ idx = Len(transactions)
    /\ pc' = "done"
    /\ UNCHANGED coreVars
    /\ UNCHANGED mainVars

Next == GetTransactions \/ StartScan \/ Iterate \/ StoreMaxBalance

Spec == Init /\ [][Next]_vars

(***************************************************************************)
(* MainSpec: main(), lines 113-193. Every fetch is wrapped by              *)
(* handle_exception (lines 53-63): on ApiException the wrapper prints a    *)
(* message and falls off its end, so the caller receives None.             *)
(***************************************************************************)
ExceptionMessage == [kind |-> "Exception when calling YNAB API"]

\* what get_budgets returns: the list of budgets (here their ids), as a
\* record so that it can be told from None
BudgetLists == {[list |-> [i \in 1..n |-> i]] : n \in 0..MaxBudgets}

\* what get_accounts returns for a budget: to_dict() of each account
AccountLists ==
    {[i \in 1..Len(f) |-> [id |-> i, cleared_balance |-> f[i]]] :
        f \in SeqsUpTo(Balances, MaxAccounts)}

WithBudget(accts, budget_id) ==
    [i \in 1..Len(accts) |-> ("budget_id" :> budget_id) @@ accts[i]]

InitMain ==
    /\ pc = "get_budgets"
    /\ budgets = None
    /\ accounts = <<>>
    /\ at = 0
    /\ stdout = <<>>
    /\ response = <<>>
    /\ cleared_balance = 0
    /\ transactions = <<>>
    /\ idx = 0
    /\ current_balance = 0
    /\ max_balance = None

\* line 120, the call returning the budgets
GetBudgetsReturns ==
    /\ pc = "get_budgets"
    /\ budgets' \in BudgetLists
    /\ pc' = "for_budget"
    /\ at' = 0
    /\ UNCHANGED <<accounts, stdout>>
    /\ UNCHANGED coreVars

\* line 120, the call raising ApiException: lines 61-62
GetBudgetsFails ==
    /\ pc = "get_budgets"
    /\ stdout' = Append(stdout, ExceptionMessage)
    /\ budgets' = None
    /\ pc' = "for_budget"
    /\ at' = 0
    /\ UNCHANGED accounts
    /\ UNCHANGED coreVars

\* line 121 over None: TypeError, which nothing catches
IterateNoBudgets ==
    /\ pc = "for_budget"
    /\ budgets = None
    /\ pc' = "TypeError"
    /\ UNCHANGED mainVars
    /\ UNCHANGED coreVars

\* lines 123-125, get_accounts returning
GetAccountsReturns ==
    /\ pc = "for_budget"
    /\ budgets # None
    /\ at < Len(budgets.list)
    /\ \E accts \in AccountLists :
          accounts' = accounts \o WithBudget(accts, budgets.list[at + 1])
    /\ at' = at + 1
    /\ UNCHANGED <<pc, budgets, stdout>>
    /\ UNCHANGED coreVars

\* line 123 raising ApiException, then line 124 over None: TypeError
GetAccountsFails ==
    /\ pc = "for_budget"
    /\ budgets # None
    /\ at < Len(budgets.list)
    /\ stdout' = Append(stdout, ExceptionMessage)
    /\ pc' = "TypeError"
    /\ UNCHANGED <<budgets, accounts, at>>
    /\ UNCHANGED coreVars

\* line 121 exhausted
BudgetsDone ==
    /\ pc = "for_budget"
    /\ budgets # None
    /\ at = Len(budgets.list)
    /\ pc' = "add_transactions"
    /\ at' = 0
    /\ UNCHANGED <<budgets, accounts, stdout>>
    /\ UNCHANGED coreVars

\* lines 129-133 for one account, get_transactions returning
AddTransactionsReturns ==
    /\ pc = "add_transactions"
    /\ at < Len(accounts)
    /\ \E resp \in SeqsUpTo(RawTxns, MaxMainFetched) :
          accounts' = [accounts EXCEPT ![at + 1] =
                          ("transactions" :> FilterAndSort(resp)) @@ @]
    /\ at' = at + 1
    /\ UNCHANGED <<pc, budgets, stdout>>
    /\ UNCHANGED coreVars

\* line 131 raising ApiException, then the comprehension over None: TypeError
AddTransactionsFails ==
    /\ pc = "add_transactions"
    /\ at < Len(accounts)
    /\ stdout' = Append(stdout, ExceptionMessage)
    /\ pc' = "TypeError"
    /\ UNCHANGED <<budgets, accounts, at>>
    /\ UNCHANGED coreVars

\* line 128 exhausted
TransactionsDone ==
    /\ pc = "add_transactions"
    /\ at = Len(accounts)
    /\ pc' = "calculate_all"
    /\ at' = 0
    /\ UNCHANGED <<budgets, accounts, stdout>>
    /\ UNCHANGED coreVars

\* lines 137-164 for one account
CalculateMaxBalance ==
    /\ pc = "calculate_all"
    /\ at < Len(accounts)
    /\ LET acct == accounts[at + 1]
           r == Scan(acct.transactions, 0, acct.cleared_balance, None)
       IN /\ accounts' = [accounts EXCEPT ![at + 1] =
                             ("max_balance" :> r.max_balance) @@ @]
          /\ pc' = IF r.raised = "" THEN pc ELSE r.raised
    /\ at' = at + 1
    /\ UNCHANGED <<budgets, stdout>>
    /\ UNCHANGED coreVars

\* lines 170-183: the dates of an account's row (the two amount columns are
\* floats formatted from max_balance['balance'] and are left out)
Row(acct) ==
    IF acct.max_balance # None
    THEN [budget_id |-> acct.budget_id, id |-> acct.id,
          start_date |-> acct.max_balance.start,
          end_date |-> acct.max_balance.end]
    ELSE [budget_id |-> acct.budget_id, id |-> acct.id,
          start_date |-> date(CONFIG_year, 1, 1),
          end_date |-> date(CONFIG_year, 12, 31)]

\* lines 136 exhausted, then 166-193
PrintTable ==
    /\ pc = "calculate_all"
    /\ at = Len(accounts)
    /\ stdout' = Append(stdout,
          [kind |-> "table",
           rows |-> [i \in 1..Len(accounts) |-> Row(accounts[i])]])
    /\ pc' = "exit"
    /\ UNCHANGED <<budgets, accounts, at>>
    /\ UNCHANGED coreVars

NextMain ==
    \/ GetBudgetsReturns
    \/ GetBudgetsFails
    \/ IterateNoBudgets
    \/ GetAccountsReturns
    \/ GetAccountsFails
    \/ BudgetsDone
    \/ AddTransactionsReturns
    \/ AddTransactionsFails
    \/ TransactionsDone
    \/ CalculateMaxBalance
    \/ PrintTable

MainSpec == InitMain /\ [][NextMain]_vars

(***************************************************************************)
(* What the claims speak of, stated over the account's data alone.         *)
(***************************************************************************)
Jan1 == date(CONFIG_year, 1, 1)
Dec31 == date(CONFIG_year, 12, 31)

\* a date from January 1 through December 31 of the target year
InTargetYear(d) == DateLE(Jan1, d) /\ DateLE(d, Dec31)

RECURSIVE SumAmounts(_, _)
\* the amounts of the first k transactions of s, added up
SumAmounts(s, k) == IF k = 0 THEN 0 ELSE SumAmounts(s, k - 1) + s[k].amount

\* the running balance once the first k transactions have been undone
RunningAfter(k) == cleared_balance - SumAmounts(transactions, k)

InYearIdx == {i \in 1..Len(transactions) : InTargetYear(transactions[i].date)}

FirstInYear == CHOOSE i \in InYearIdx : \A j \in InYearIdx : i <= j

\* the balance before the newest in-year transaction is undone, and the
\* balance after each in-year transaction is undone
Candidates ==
    {RunningAfter(FirstInYear - 1)} \cup {RunningAfter(i) : i \in InYearIdx}

MaxCandidate == CHOOSE m \in Candidates : \A c \in Candidates : m >= c

Scanned == pc = "done"

Found == Scanned /\ InYearIdx # {}

\* C1: the result is absent exactly when no transaction is dated in the
\* target year
C1_AbsentIffNoneInYear ==
    Scanned => ((max_balance = None) <=> (InYearIdx = {}))

C1_Witness ==
    /\ Scanned
    /\ max_balance = None
    /\ \E i, j \in 1..Len(transactions) :
          /\ DateLT(Dec31, transactions[i].date)
          /\ DateLT(transactions[j].date, Jan1)

\* C2: the returned balance is the maximum of the running balance before
\* the newest in-year transaction is undone and the running balances after
\* each in-year transaction is undone
C2_BalanceIsMaximum ==
    Found =>
        /\ max_balance # None
        /\ max_balance.balance \in Candidates
        /\ \A c \in Candidates : max_balance.balance >= c

C2_Witness ==
    /\ Found
    /\ Cardinality(InYearIdx) >= 2
    /\ FirstInYear > 1
    /\ max_balance # None
    /\ max_balance.balance > RunningAfter(FirstInYear - 1)
    /\ \E i \in InYearIdx : RunningAfter(i) < max_balance.balance

\* C5: one transaction, dated D in the target year with amount A, against
\* balance C: {C, D, December 31} if A >= 0, {C - A, January 1, D} if A < 0
C5_SingleTransaction ==
    (Scanned /\ Len(transactions) = 1 /\ InTargetYear(transactions[1].date)) =>
        LET t == transactions[1]
        IN  max_balance =
              IF t.amount >= 0
              THEN [balance |-> cleared_balance, start |-> t.date, end |-> Dec31]
              ELSE [balance |-> cleared_balance - t.amount, start |-> Jan1,
                    end |-> t.date]

C5_Witness ==
    /\ Scanned
    /\ Len(transactions) = 1
    /\ InTargetYear(transactions[1].date)
    /\ transactions[1].amount < 0
    /\ max_balance # None
    /\ max_balance.start = Jan1

\* C6: the scan raises nothing: the comparison with max_balance['balance']
\* is only reached with max_balance seeded, and the lookup past the end of
\* the list falls back to January 1
C6_ScanRaisesNothing ==
    /\ pc \notin {"TypeError", "IndexError"}
    /\ (pc \in {"scan", "done"} /\ idx > 0
            /\ InTargetYear(transactions[idx].date)) => max_balance # None

C6_Witness ==
    /\ Scanned
    /\ Len(transactions) >= 2
    /\ DateLT(Dec31, transactions[1].date)
    /\ InTargetYear(transactions[Len(transactions)].date)
    /\ max_balance # None
    /\ max_balance.start = Jan1
    /\ max_balance.end = transactions[Len(transactions)].date
    /\ max_balance.end # Jan1

\* the balance at the close of day d: every transaction dated after d undone
RECURSIVE UndoneAfter(_, _)
UndoneAfter(s, d) ==
    IF s = <<>> THEN 0
    ELSE (IF DateLT(d, Head(s).date) THEN Head(s).amount ELSE 0)
            + UndoneAfter(Tail(s), d)

BalanceAtCloseOf(d) == cleared_balance - UndoneAfter(transactions, d)

\* the balance at the opening of day d: every transaction dated d or later undone
RECURSIVE UndoneFrom(_, _)
UndoneFrom(s, d) ==
    IF s = <<>> THEN 0
    ELSE (IF DateLE(d, Head(s).date) THEN Head(s).amount ELSE 0)
            + UndoneFrom(Tail(s), d)

BalanceAtOpeningOf(d) == cleared_balance - UndoneFrom(transactions, d)

\* C3, as claimed: [start, end] is the longest span on which the balance
\* stayed at the returned maximum, so the balance differs just before start
\* (when start is after January 1) and just after end (when end is before
\* December 31)
C3_LongestSpan ==
    (Scanned /\ max_balance # None) =>
        /\ DateLT(Jan1, max_balance.start) =>
              BalanceAtOpeningOf(max_balance.start) # max_balance.balance
        /\ DateLT(max_balance.end, Dec31) =>
              BalanceAtCloseOf(max_balance.end) # max_balance.balance

\* C3, amended: [start, end] is a span on which the balance stayed at the
\* returned maximum: start <= end, and at the close of every day from start
\* up to the day before end the balance is the returned balance
C3_SpanHoldsMaximum ==
    (Scanned /\ max_balance # None) =>
        /\ DateLE(max_balance.start, max_balance.end)
        /\ \A d \in Dates :
              (DateLE(max_balance.start, d) /\ DateLT(d, max_balance.end)) =>
                  BalanceAtCloseOf(d) = max_balance.balance

C3_Witness ==
    /\ Scanned
    /\ max_balance # None
    /\ Len(transactions) = 3
    /\ max_balance.end = transactions[2].date
    /\ max_balance.start = transactions[3].date
    /\ transactions[3].amount # 0
    /\ \E d \in Dates : DateLT(max_balance.start, d) /\ DateLT(d, max_balance.end)

\* the candidate balances in scan order: 0 is the seed, i > 0 the balance
\* after the in-year transaction i is undone
Occurrences ==
    {0} \cup InYearIdx

BalanceOfOccurrence(i) ==
    IF i = 0 THEN RunningAfter(FirstInYear - 1) ELSE RunningAfter(i)

FirstMaxOccurrence ==
    CHOOSE i \in Occurrences :
        /\ BalanceOfOccurrence(i) = MaxCandidate
        /\ \A j \in Occurrences : BalanceOfOccurrence(j) = MaxCandidate => i <= j

\* C8: when the maximum is reached several times, the result is the range of
\* its first occurrence in the backward scan; a tie found at an older
\* transaction changes nothing
C8_FirstOccurrenceKept ==
    Found =>
        LET k == FirstMaxOccurrence
            n == Len(transactions)
        IN  max_balance =
              IF k = 0
              THEN [balance |-> MaxCandidate,
                    start |-> transactions[FirstInYear].date, end |-> Dec31]
              ELSE [balance |-> MaxCandidate,
                    start |-> IF k < n THEN transactions[k + 1].date ELSE Jan1,
                    end |-> transactions[k].date]

C8_Witness ==
    /\ Found
    /\ max_balance # None
    /\ FirstMaxOccurrence > 0
    /\ \E j \in InYearIdx :
          /\ j > FirstMaxOccurrence
          /\ RunningAfter(j) = max_balance.balance
    /\ max_balance.end = transactions[FirstMaxOccurrence].date

\* the update of step 5 is triggered by the transaction being scanned
UpdateTriggered ==
    /\ pc = "scan"
    /\ idx < Len(transactions)
    /\ InTargetYear(transactions[idx + 1].date)
    /\ current_balance - transactions[idx + 1].amount >
          (IF max_balance = None THEN current_balance ELSE max_balance.balance)

\* C9: an update triggered at index idx sets start to the date at idx+1 if
\* there is one and to January 1 otherwise, and end to the date at idx; so a
\* maximum set by undoing the oldest transaction runs from January 1 to that
\* transaction's date
C9_StartOfUpdate ==
    /\ [][UpdateTriggered =>
            /\ max_balance'.start =
                  (IF idx + 2 <= Len(transactions)
                   THEN transactions[idx + 2].date ELSE Jan1)
            /\ max_balance'.end = transactions[idx + 1].date]_vars
    /\ [](LET n == Len(transactions)
          IN (Found /\ n \in InYearIdx /\ FirstMaxOccurrence = n) =>
                 /\ max_balance.start = Jan1
                 /\ max_balance.end = transactions[n].date)

C9_Witness ==
    /\ Found
    /\ Len(transactions) = 3
    /\ FirstMaxOccurrence = 3
    /\ max_balance # None
    /\ max_balance.start = Jan1
    /\ max_balance.end = transactions[3].date
    /\ max_balance.end # Jan1

\* C10, as claimed: start <= end and both lie within the target year
C10_RangeWithinYear ==
    (Scanned /\ max_balance # None) =>
        /\ DateLE(max_balance.start, max_balance.end)
        /\ InTargetYear(max_balance.start)
        /\ InTargetYear(max_balance.end)

\* C10, amended: start <= end, end lies within the target year, and start
\* lies within the target year unless it is the date of a transaction dated
\* before the target year
C10_RangeEndsWithinYear ==
    (Scanned /\ max_balance # None) =>
        /\ DateLE(max_balance.start, max_balance.end)
        /\ InTargetYear(max_balance.end)
        /\ \/ InTargetYear(max_balance.start)
           \/ \E i \in 1..Len(transactions) :
                 /\ transactions[i].date = max_balance.start
                 /\ DateLT(transactions[i].date, Jan1)

C10_Witness ==
    /\ Scanned
    /\ max_balance # None
    /\ DateLT(max_balance.start, Jan1)
    /\ DateLT(Dec31, transactions[1].date)
    /\ max_balance.end # Dec31

\* the fetched list with one of its uncleared transactions removed or
\* changed, or with an uncleared transaction added
Uncleared == [date : FewDates, amount : Amounts, cleared : {"uncleared"}]

Without(s, i) == SubSeq(s, 1, i - 1) \o SubSeq(s, i + 1, Len(s))

WithAt(s, k, t) == SubSeq(s, 1, k) \o <<t>> \o SubSeq(s, k + 1, Len(s))

UnclearedAt(s) == {i \in 1..Len(s) : s[i].cleared = "uncleared"}

Variants(s) ==
    {Without(s, i) : i \in UnclearedAt(s)}
        \cup {[s EXCEPT ![i] = u] : i \in UnclearedAt(s), u \in Uncleared}
        \cup {WithAt(s, k, u) : k \in 0..Len(s), u \in Uncleared}

\* C7: adding, removing or changing uncleared transactions of the fetched
\* list leaves the account's result unchanged
C7_UnclearedIgnored ==
    Scanned =>
        \A v \in Variants(response) :
            MaxBalanceOf(cleared_balance, v)
                = [raised |-> "", max_balance |-> max_balance]

C7_Witness ==
    /\ Scanned
    /\ max_balance # None
    /\ \E i, j \in 1..Len(response) :
          /\ response[i].cleared = "uncleared"
          /\ InTargetYear(response[i].date)
          /\ response[i].amount < 0
          /\ response[j].cleared = "reconciled"
          /\ InTargetYear(response[j].date)

\* C4: a fetch that fails with ApiException is reported and main still goes
\* on to its report: once the exception message is printed main does not abort
C4_FailedFetchDoesNotAbort ==
    (\E i \in 1..Len(stdout) : stdout[i] = ExceptionMessage) => pc # "TypeError"

====
